---- MODULE Spec2Model ----
(***************************************************************************)
(* Model of package nnc (nnc.go): an n-sized noughts and crosses game with *)
(* an alpha-beta pruning automated player.                                 *)
(*                                                                         *)
(* A Game value is modelled as a record [board, size, count, currPlayer];  *)
(* the board is indexed from 0 as in the code (board[i][j]).  The live     *)
(* game of a session is held in the variables board, size, count and       *)
(* currPlayer.  A caller issues one call at a time: a call runs its whole  *)
(* method and leaves in ret its arguments, the game it was called on (pre) *)
(* and its return values; the caller then takes the values (Return) before *)
(* it issues the next call.  moves counts the calls that returned no error.*)
(* auto is the player whose moves all come from PlayAI in a match (SpecMatch)*)
(* and Empty where no player is bound to it.                               *)
(***************************************************************************)
EXTENDS Integers, Sequences, FiniteSets, TLC

VARIABLES board, size, count, currPlayer, pc, ret, moves, auto

vars == <<board, size, count, currPlayer, pc, ret, moves, auto>>

\* ------------------------------------------------------------------ bounds
\* Sizes handed to New: -1 .. 3.
Sizes == {0 - 1, 0, 1, 2, 3}

\* Coordinates handed to Play range over -Margin .. size - 1 + Margin.
Margin == 1

\* --------------------------------------------------------------- constants
Empty == " "
Cross == "X"
Nought == "O"

\* error values; NoError is Go's nil error
NoError == "nil"
ErrTurn == "not player's turn"
ErrPosition == "invalid position"
ErrPlayed == "cell already played"
ErrPanic == "panic: makeslice: len out of range"

\* the player arguments a caller may pass
PlayerArgs == {Empty, Cross, Nought}

\* ------------------------------------------------------------------- types
Symbols == {Empty, Cross, Nought}

Boards == UNION {[0 .. n - 1 -> [0 .. n - 1 -> Symbols]] : n \in Sizes}

Games == [board : Boards, size : Int, count : Int, currPlayer : Symbols]

Moves == [value : Int, i : Int, j : Int]

Game(b, sz, c, p) == [board |-> b, size |-> sz, count |-> c, currPlayer |-> p]

move(v, i, j) == [value |-> v, i |-> i, j |-> j]

\* What a search node returns: the move, and two history flags that are not
\* in the code.  cut: some node of the subtree left its loops on the cutoff
\* test; agree: at every such exit the child m returned was equal, value and
\* coordinates, to the best move p of that node.
searched(m, agree, cut) ==
    [value |-> m.value, i |-> m.i, j |-> m.j, agree |-> agree, cut |-> cut]

\* the absence of a move (PlayAI returned before the search)
NoMove == [value |-> 0, i |-> 0 - 9, j |-> 0 - 9, agree |-> TRUE, cut |-> FALSE]

\* ------------------------------------------------------------ min and max
min(a, b) == IF a.value <= b.value THEN a ELSE b

max_TieLatest(a, b) == IF a.value > b.value THEN a ELSE b

max_Inverted(a, b) == IF a.value <= b.value THEN a ELSE b

max(a, b) == IF a.value >= b.value THEN a ELSE b

\* --------------------------------------------------------------------- New
New_StartNought(sz) ==
    Game([i \in 0 .. sz - 1 |-> [j \in 0 .. sz - 1 |-> Empty]], sz, sz * sz, Nought)

New(sz) ==
    Game([i \in 0 .. sz - 1 |-> [j \in 0 .. sz - 1 |-> Empty]], sz, sz * sz, Cross)

\* ---------------------------------------------------------------- copyGame
copyGame(g) ==
    Game([i \in 0 .. g.size - 1 |-> [j \in 0 .. g.size - 1 |-> g.board[i][j]]],
         g.size, g.count, g.currPlayer)

\* -------------------------------------------------------------- updateTurn
updateTurn_Stuck(g) == g

updateTurn(g) ==
    IF g.currPlayer = Cross THEN [g EXCEPT !.currPlayer = Nought]
    ELSE IF g.currPlayer = Nought THEN [g EXCEPT !.currPlayer = Cross]
    ELSE g

\* ------------------------------------------------------------------- lines
\* The cells the code reads along a line, indexed 0 .. size-1:
\* board[i][j], board[j][i], board[i][i] and board[i][sz-1-i].
rowOf(g, i) == [j \in 0 .. g.size - 1 |-> g.board[i][j]]

colOf(g, i) == [j \in 0 .. g.size - 1 |-> g.board[j][i]]

diagOf(g) == [i \in 0 .. g.size - 1 |-> g.board[i][i]]

antiOf(g) == [i \in 0 .. g.size - 1 |-> g.board[i][g.size - 1 - i]]

\* ------------------------------------------------------------------ isDone
\* One scan of isDone: local stays true while every cell read is non-Empty
\* and equal to init, the first cell of the line.  With size 0 nothing is
\* read: local stays true and init stays Empty.
scanLocal(sz, line) ==
    \A k \in 0 .. sz - 1 : ~(line[k] = Empty \/ line[k] # line[0])

scanInit(sz, line) == IF sz > 0 THEN line[0] ELSE Empty

\* the loop over i: line i, then column i; the first uniform one returns
RECURSIVE linesDone(_, _)
linesDone(g, i) ==
    IF i >= g.size THEN [local |-> FALSE, init |-> Empty]
    ELSE IF scanLocal(g.size, rowOf(g, i))
      THEN [local |-> TRUE, init |-> scanInit(g.size, rowOf(g, i))]
    ELSE IF scanLocal(g.size, colOf(g, i))
      THEN [local |-> TRUE, init |-> scanInit(g.size, colOf(g, i))]
    ELSE linesDone(g, i + 1)

\* the last loops: done unless some cell is Empty
noEmpty(g) ==
    \A i \in 0 .. g.size - 1 : \A j \in 0 .. g.size - 1 : g.board[i][j] # Empty

isDone_NoDiagonals(g) ==
    LET l == linesDone(g, 0)
    IN  IF l.local THEN [done |-> TRUE, winner |-> l.init]
        ELSE [done |-> noEmpty(g), winner |-> Empty]

isDone_NoAntiDiagonal(g) ==
    LET l == linesDone(g, 0)
    IN  IF l.local THEN [done |-> TRUE, winner |-> l.init]
        ELSE IF scanLocal(g.size, diagOf(g))
          THEN [done |-> TRUE, winner |-> scanInit(g.size, diagOf(g))]
        ELSE [done |-> noEmpty(g), winner |-> Empty]

isDone(g) ==
    LET l == linesDone(g, 0)
    IN  IF l.local THEN [done |-> TRUE, winner |-> l.init]
        ELSE IF scanLocal(g.size, diagOf(g))
          THEN [done |-> TRUE, winner |-> scanInit(g.size, diagOf(g))]
        ELSE IF scanLocal(g.size, antiOf(g))
          THEN [done |-> TRUE, winner |-> scanInit(g.size, antiOf(g))]
        ELSE [done |-> noEmpty(g), winner |-> Empty]

\* ----------------------------------------------------------------- outcome
\* The walk along one line: cells k .. sz-1 with the symbol seen first (init)
\* and the running sum.  Empty cells are skipped; a second symbol gives 0.
RECURSIVE lineSum_NoDecrement(_, _, _, _, _, _)
lineSum_NoDecrement(sz, line, k, init, sum, player) ==
    IF k >= sz THEN sum
    ELSE IF line[k] = Empty THEN lineSum_NoDecrement(sz, line, k + 1, init, sum, player)
    ELSE LET ini == IF init = Empty THEN line[k] ELSE init
         IN  IF line[k] # ini THEN 0
             ELSE lineSum_NoDecrement(sz, line, k + 1, ini,
                                      IF line[k] = player THEN sum + 1 ELSE sum, player)

RECURSIVE lineSum_NoReset(_, _, _, _, _, _)
lineSum_NoReset(sz, line, k, init, sum, player) ==
    IF k >= sz THEN sum
    ELSE IF line[k] = Empty THEN lineSum_NoReset(sz, line, k + 1, init, sum, player)
    ELSE LET ini == IF init = Empty THEN line[k] ELSE init
         IN  IF line[k] # ini THEN sum
             ELSE lineSum_NoReset(sz, line, k + 1, ini,
                                  IF line[k] = player THEN sum + 1 ELSE sum - 1, player)

RECURSIVE lineSum(_, _, _, _, _, _)
lineSum(sz, line, k, init, sum, player) ==
    IF k >= sz THEN sum
    ELSE IF line[k] = Empty THEN lineSum(sz, line, k + 1, init, sum, player)
    ELSE LET ini == IF init = Empty THEN line[k] ELSE init
         IN  IF line[k] # ini THEN 0
             ELSE lineSum(sz, line, k + 1, ini,
                          IF line[k] = player THEN sum + 1 ELSE sum - 1, player)

\* the loop over i (lines and columns), then the two diagonals
RECURSIVE outcomeFrom(_, _, _, _)
outcomeFrom(g, player, i, sum) ==
    LET sz == g.size
    IN  IF i < sz
        THEN LET lsum == lineSum(sz, rowOf(g, i), 0, Empty, 0, player)
                 csum == lineSum(sz, colOf(g, i), 0, Empty, 0, player)
             IN  IF lsum = sz \/ csum = sz THEN 3 * sz * sz
                 ELSE IF lsum = 0 - sz \/ csum = 0 - sz THEN 0 - (3 * sz * sz)
                 ELSE outcomeFrom(g, player, i + 1, sum + lsum + csum)
        ELSE LET dsum == lineSum(sz, diagOf(g), 0, Empty, 0, player)
                 adsum == lineSum(sz, antiOf(g), 0, Empty, 0, player)
             IN  IF dsum = sz THEN 3 * sz * sz
                 ELSE IF dsum = 0 - sz THEN 0 - (3 * sz * sz)
                 ELSE IF adsum = sz THEN 3 * sz * sz
                 ELSE IF adsum = 0 - sz THEN 0 - (3 * sz * sz)
                 ELSE sum + dsum + adsum

outcome(g, player) ==
    IF player # Nought /\ player # Cross THEN 0
    ELSE outcomeFrom(g, player, 0, 0)

\* -------------------------------------------------------------------- Play
\* The method on a game value: the game after the call and the three results.
PlayResult(g, d, w, e) == [g |-> g, done |-> d, winner |-> w, err |-> e]

applyMove_Transposed(g, x, y, player) ==
    LET g1 == [g EXCEPT !.board[y][x] = player]
        d == isDone(g1)
        g2 == updateTurn(g1)
    IN  PlayResult([g2 EXCEPT !.count = g2.count - 1], d.done, d.winner, NoError)

applyMove_NoCount(g, x, y, player) ==
    LET g1 == [g EXCEPT !.board[x][y] = player]
        d == isDone(g1)
        g2 == updateTurn(g1)
    IN  PlayResult(g2, d.done, d.winner, NoError)

\* the statements after the validation check
applyMove(g, x, y, player) ==
    LET g1 == [g EXCEPT !.board[x][y] = player]
        d == isDone(g1)
        g2 == updateTurn(g1)
    IN  PlayResult([g2 EXCEPT !.count = g2.count - 1], d.done, d.winner, NoError)

Play_NoPlayedCheck(g, x, y, player) ==
    IF g.currPlayer # player THEN PlayResult(g, FALSE, Empty, ErrTurn)
    ELSE IF x < 0 \/ g.size <= x \/ y < 0 \/ g.size <= y
      THEN PlayResult(g, FALSE, Empty, ErrPosition)
    ELSE applyMove(g, x, y, player)

Play_BlockWhenDone(g, x, y, player) ==
    IF g.currPlayer # player THEN PlayResult(g, FALSE, Empty, ErrTurn)
    ELSE IF x < 0 \/ g.size <= x \/ y < 0 \/ g.size <= y
      THEN PlayResult(g, FALSE, Empty, ErrPosition)
    ELSE IF g.board[x][y] # Empty \/ isDone(g).done
      THEN PlayResult(g, FALSE, Empty, ErrPlayed)
    ELSE applyMove(g, x, y, player)

Play(g, x, y, player) ==
    IF g.currPlayer # player THEN PlayResult(g, FALSE, Empty, ErrTurn)
    ELSE IF x < 0 \/ g.size <= x \/ y < 0 \/ g.size <= y
      THEN PlayResult(g, FALSE, Empty, ErrPosition)
    ELSE IF g.board[x][y] # Empty THEN PlayResult(g, FALSE, Empty, ErrPlayed)
    ELSE applyMove(g, x, y, player)

\* ------------------------------------------------- alphaBetaPruningSerial
RECURSIVE alphaBetaPruningSerial(_, _, _, _, _, _, _)

\* The cells the two nested range loops do not skip: the Empty cells of g in
\* row-major order, cell (i, j) numbered i * size + j.  (g is not written
\* during the loops: every move is played on a copy.)
emptyCells_Reversed(g) ==
    LET cells == SelectSeq([k \in 1 .. g.size * g.size |-> k - 1],
                           LAMBDA k : g.board[k \div g.size][k % g.size] = Empty)
    IN  [k \in 1 .. Len(cells) |-> cells[Len(cells) + 1 - k]]

emptyCells(g) ==
    SelectSeq([k \in 1 .. g.size * g.size |-> k - 1],
              LAMBDA k : g.board[k \div g.size][k % g.size] = Empty)

\* the state of the loops: the cells still to visit, alpha, beta, the best
\* move p so far and the history flags of the children visited
LoopStates ==
    [g : Games, depth : Int, alpha : Int, beta : Int, player : Symbols,
     todo : Seq(Int), p : Moves, agree : BOOLEAN, cut : BOOLEAN]

\* the loops of the maximizing branch, from the first cell of s.todo on
maxLoop[s \in LoopStates] ==
    IF s.todo = << >> THEN searched(s.p, s.agree, s.cut)
    ELSE LET i == Head(s.todo) \div s.g.size
             j == Head(s.todo) % s.g.size
             ng == Play(copyGame(s.g), i, j, s.player).g
             r == alphaBetaPruningSerial(ng, s.depth - 1, s.alpha, s.beta, i, j, s.player)
             m == move(r.value, i, j)
             np == max(s.p, m)
         IN  IF s.beta <= np.value
             THEN searched(m, s.agree /\ r.agree /\ m = np, TRUE)
             ELSE maxLoop[[s EXCEPT !.todo = Tail(s.todo), !.alpha = np.value,
                                    !.p = np, !.agree = s.agree /\ r.agree,
                                    !.cut = s.cut \/ r.cut]]

\* the loops of the minimizing branch; curr = g.currPlayer moves
minLoop[s \in LoopStates] ==
    IF s.todo = << >> THEN searched(s.p, s.agree, s.cut)
    ELSE LET i == Head(s.todo) \div s.g.size
             j == Head(s.todo) % s.g.size
             ng == Play(copyGame(s.g), i, j, s.g.currPlayer).g
             r == alphaBetaPruningSerial(ng, s.depth - 1, s.alpha, s.beta, i, j, s.player)
             m == move(r.value, i, j)
             np == min(s.p, m)
         IN  IF np.value <= s.alpha
             THEN searched(m, s.agree /\ r.agree /\ m = np, TRUE)
             ELSE minLoop[[s EXCEPT !.todo = Tail(s.todo), !.beta = np.value,
                                    !.p = np, !.agree = s.agree /\ r.agree,
                                    !.cut = s.cut \/ r.cut]]

alphaBetaPruningSerial(g, depth, alpha, beta, x, y, player) ==
    IF depth = 0 THEN searched(move(outcome(g, player), x, y), TRUE, FALSE)
    ELSE IF isDone(g).done THEN searched(move(outcome(g, player), x, y), TRUE, FALSE)
    ELSE IF g.currPlayer = player
      THEN maxLoop[[g |-> g, depth |-> depth, alpha |-> alpha, beta |-> beta,
                    player |-> player, todo |-> emptyCells(g),
                    p |-> move(alpha, x, y), agree |-> TRUE, cut |-> FALSE]]
    ELSE minLoop[[g |-> g, depth |-> depth, alpha |-> alpha, beta |-> beta,
                  player |-> player, todo |-> emptyCells(g),
                  p |-> move(beta, x, y), agree |-> TRUE, cut |-> FALSE]]

\* ------------------------------------------------------------------ PlayAI
\* The method on a game value: Play's results and the move the search chose.
PlayAIResult(r, m) ==
    [g |-> r.g, done |-> r.done, winner |-> r.winner, err |-> r.err, m |-> m]

searchMove_SwappedWindow(g, player) ==
    alphaBetaPruningSerial(g, g.size * g.size, g.size * g.size * 10,
                           0 - (g.size * g.size * 10), 0 - 1, 0 - 1, player)

searchMove_SmallLimit(g, player) ==
    alphaBetaPruningSerial(g, g.size * g.size, 0 - (g.size * g.size),
                           g.size * g.size, 0 - 1, 0 - 1, player)

searchMove_OnePly(g, player) ==
    alphaBetaPruningSerial(g, 1, 0 - (g.size * g.size * 10),
                           g.size * g.size * 10, 0 - 1, 0 - 1, player)

\* the search from the live game with the window -lim .. lim
searchMove(g, player) ==
    alphaBetaPruningSerial(g, g.size * g.size, 0 - (g.size * g.size * 10),
                           g.size * g.size * 10, 0 - 1, 0 - 1, player)

PlayAI_NoTurnCheck(g, player) ==
    LET m == searchMove(g, player)
    IN  PlayAIResult(Play(g, m.i, m.j, player), m)

PlayAI_SwapXY(g, player) ==
    IF g.currPlayer # player
    THEN PlayAIResult(PlayResult(g, FALSE, Empty, ErrTurn), NoMove)
    ELSE LET m == searchMove(g, player)
         IN  PlayAIResult(Play(g, m.j, m.i, player), m)

PlayAI(g, player) ==
    IF g.currPlayer # player
    THEN PlayAIResult(PlayResult(g, FALSE, Empty, ErrTurn), NoMove)
    ELSE LET m == searchMove(g, player)
         IN  PlayAIResult(Play(g, m.i, m.j, player), m)

\* ------------------------------------------------------------ the session
\* the live game
G == Game(board, size, count, currPlayer)

\* no Game value
NoGame == Game(<< >>, 0, 0, Empty)

\* What a call left for its caller: the call (op and arguments; New's sz is
\* held in x), the game it was called on, its results, and for PlayAI the
\* move m the search returned.
Ret(op, x, y, player, pre, r, m) ==
    [op |-> op, x |-> x, y |-> y, player |-> player, pre |-> pre,
     done |-> r.done, winner |-> r.winner, err |-> r.err, m |-> m]

NoRet == Ret("none", 0, 0, Empty, NoGame, PlayResult(NoGame, FALSE, Empty, NoError), NoMove)

SetGame(g) ==
    /\ board' = g.board
    /\ size' = g.size
    /\ count' = g.count
    /\ currPlayer' = g.currPlayer

\* g := New(sz).  A negative sz makes make([][]byte, sz) panic: no Game
\* value exists then (the game variables hold NoGame).
Init ==
    \E sz \in Sizes :
    \E g \in {IF sz < 0 THEN NoGame ELSE New(sz)} :
        /\ board = g.board
        /\ size = g.size
        /\ count = g.count
        /\ currPlayer = g.currPlayer
        /\ moves = 0
        /\ auto = Empty
        /\ pc = IF sz < 0 THEN "panicked" ELSE "returned"
        /\ ret = Ret("New", sz, 0, Empty, NoGame,
                     PlayResult(g, FALSE, Empty, IF sz < 0 THEN ErrPanic ELSE NoError),
                     NoMove)

\* g.Play(x, y, player)
CallPlay ==
    /\ pc = "idle"
    /\ \E x \in (0 - Margin) .. (size - 1 + Margin) :
       \E y \in (0 - Margin) .. (size - 1 + Margin) :
       \E player \in PlayerArgs :
       \E r \in {Play(G, x, y, player)} :
          /\ SetGame(r.g)
          /\ ret' = Ret("Play", x, y, player, G, r, NoMove)
          /\ moves' = IF r.err = NoError THEN moves + 1 ELSE moves
    /\ pc' = "returned"
    /\ UNCHANGED auto

\* g.PlayAI(player)
CallPlayAI ==
    /\ pc = "idle"
    /\ \E player \in PlayerArgs :
       \E r \in {PlayAI(G, player)} :
          /\ SetGame(r.g)
          /\ ret' = Ret("PlayAI", r.m.i, r.m.j, player, G, r, r.m)
          /\ moves' = IF r.err = NoError THEN moves + 1 ELSE moves
    /\ pc' = "returned"
    /\ UNCHANGED auto

\* the caller takes the returned values and is ready for its next call
Return ==
    /\ pc = "returned"
    /\ pc' = "idle"
    /\ ret' = NoRet
    /\ UNCHANGED <<board, size, count, currPlayer, moves, auto>>

Next == CallPlay \/ CallPlayAI \/ Return

Spec == Init /\ [][Next]_vars

\* ------------------------------------------- the evaluators on any board
\* isDone and outcome are pure functions of the board: they are applied to
\* every board over {Empty, Cross, Nought} of the sizes below, whether or not
\* play can reach it.
EvalSizes == {1, 2, 3}

\* the results read so far: out[p] is outcome(p) for the players p asked
\* about, fin holds isDone's results once it has been called
EvalRet(o, f) == [op |-> "eval", out |-> o, fin |-> f]

EvalInit ==
    \E n \in EvalSizes :
    \E b \in [0 .. n - 1 -> [0 .. n - 1 -> Symbols]] :
        /\ board = b
        /\ size = n
        /\ count = Len(emptyCells(Game(b, n, 0, Cross)))
        /\ currPlayer = Cross
        /\ moves = 0
        /\ auto = Empty
        /\ pc = "eval"
        /\ ret = EvalRet(<< >>, << >>)

\* g.outcome(player)
EvalOutcome ==
    /\ pc = "eval"
    /\ \E player \in {Cross, Nought} \ DOMAIN ret.out :
       \E v \in {outcome(G, player)} :
          ret' = EvalRet([p \in DOMAIN ret.out \cup {player} |->
                             IF p = player THEN v ELSE ret.out[p]], ret.fin)
    /\ UNCHANGED <<board, size, count, currPlayer, pc, moves, auto>>

\* g.isDone()
EvalIsDone ==
    /\ pc = "eval"
    /\ ret.fin = << >>
    /\ ret' = EvalRet(ret.out, <<isDone(G)>>)
    /\ UNCHANGED <<board, size, count, currPlayer, pc, moves, auto>>

EvalNext == EvalOutcome \/ EvalIsDone

SpecEval == EvalInit /\ [][EvalNext]_vars

\* --------------------------------------------------------------- a match
\* One player, auto, makes every move through PlayAI; the other makes any
\* move Play accepts.  The callers stop at the first call that returns
\* done = true.
MatchSizes == {1, 2, 3}

MatchInit ==
    \E sz \in MatchSizes :
    \E a \in {Cross, Nought} :
    \E g \in {New(sz)} :
        /\ board = g.board
        /\ size = g.size
        /\ count = g.count
        /\ currPlayer = g.currPlayer
        /\ moves = 0
        /\ auto = a
        /\ pc = "returned"
        /\ ret = Ret("New", sz, 0, Empty, NoGame,
                     PlayResult(g, FALSE, Empty, NoError), NoMove)

\* g.PlayAI(auto), on auto's turn
MatchPlayAI ==
    /\ pc = "idle"
    /\ currPlayer = auto
    /\ \E r \in {PlayAI(G, auto)} :
          /\ SetGame(r.g)
          /\ ret' = Ret("PlayAI", r.m.i, r.m.j, auto, G, r, r.m)
          /\ moves' = IF r.err = NoError THEN moves + 1 ELSE moves
    /\ pc' = "returned"
    /\ UNCHANGED auto

\* g.Play(x, y, opponent) on an Empty cell, on the opponent's turn
MatchPlay ==
    /\ pc = "idle"
    /\ currPlayer # auto
    /\ \E x \in 0 .. size - 1 :
       \E y \in 0 .. size - 1 :
       \E r \in {Play(G, x, y, currPlayer)} :
          /\ board[x][y] = Empty
          /\ SetGame(r.g)
          /\ ret' = Ret("Play", x, y, currPlayer, G, r, NoMove)
          /\ moves' = IF r.err = NoError THEN moves + 1 ELSE moves
    /\ pc' = "returned"
    /\ UNCHANGED auto

\* the caller takes the returned values; it goes on unless the game is done
MatchReturn ==
    /\ pc = "returned"
    /\ ~ret.done
    /\ pc' = "idle"
    /\ ret' = NoRet
    /\ UNCHANGED <<board, size, count, currPlayer, moves, auto>>

MatchNext == MatchPlayAI \/ MatchPlay \/ MatchReturn

SpecMatch == MatchInit /\ [][MatchNext]_vars

\* ------------------------------------------- the search on shared boards
\* A Go Game value holds its board as a slice: a reference to cells that a
\* copy of the struct shares.  Here a game is [ref, size, count, currPlayer]
\* and the heap h, a sequence, gives the cells of every board: h[g.ref] is
\* g's board.  A write through one game is seen by every game with that ref.
GameRef(r, sz, c, p) == [ref |-> r, size |-> sz, count |-> c, currPlayer |-> p]

GameRefs == [ref : Nat, size : Int, count : Int, currPlayer : Symbols]

\* the game value g stands for in h
Deref(h, g) == Game(h[g.ref], g.size, g.count, g.currPlayer)

\* what a method leaves: the heap, the game struct and the results
RefResult(h, g, d, w, e) == [h |-> h, g |-> g, done |-> d, winner |-> w, err |-> e]

\* ng = g: the struct is copied, the board is shared
copyGameRef_Shallow(h, g) == [h |-> h, g |-> g]

\* copyGame: a new board is allocated and every cell is copied into it
copyGameRef(h, g) ==
    [h |-> Append(h, [i \in 0 .. g.size - 1 |-> [j \in 0 .. g.size - 1 |-> h[g.ref][i][j]]]),
     g |-> [g EXCEPT !.ref = Len(h) + 1]]

\* Play on the game struct g (pointer receiver): the cell is written in h
PlayRef(h, g, x, y, player) ==
    IF g.currPlayer # player THEN RefResult(h, g, FALSE, Empty, ErrTurn)
    ELSE IF x < 0 \/ g.size <= x \/ y < 0 \/ g.size <= y
      THEN RefResult(h, g, FALSE, Empty, ErrPosition)
    ELSE IF h[g.ref][x][y] # Empty THEN RefResult(h, g, FALSE, Empty, ErrPlayed)
    ELSE LET h1 == [h EXCEPT ![g.ref][x][y] = player]
             d == isDone(Deref(h1, g))
             g2 == updateTurn(g)
         IN  RefResult(h1, [g2 EXCEPT !.count = g2.count - 1], d.done, d.winner, NoError)

RECURSIVE alphaBetaRef(_, _, _, _, _, _, _, _)

\* The next cell at or after number k that the range loops do not skip: the
\* cells are read from h as the loops reach them.  size * size when none.
nextEmpty(h, g, k) ==
    LET rest == {c \in k .. g.size * g.size - 1 :
                    h[g.ref][c \div g.size][c % g.size] = Empty}
    IN  IF rest = {} THEN g.size * g.size
        ELSE CHOOSE c \in rest : \A d \in rest : c <= d

\* the state of the loops: the heap, the cell number reached, alpha, beta
\* and the best move p so far
RefLoopStates ==
    [h : Seq(Boards), g : GameRefs, depth : Int, alpha : Int, beta : Int,
     player : Symbols, k : Int, p : Moves]

\* The loops of the maximizing branch from cell number s.k on.  ng is out
\* of scope after each round: its board, the last of the heap, is dropped.
maxLoopRef[s \in RefLoopStates] ==
    LET k == nextEmpty(s.h, s.g, s.k)
    IN  IF k >= s.g.size * s.g.size THEN [m |-> s.p, h |-> s.h]
        ELSE LET i == k \div s.g.size
                 j == k % s.g.size
                 ng == copyGameRef(s.h, s.g)
                 pl == PlayRef(ng.h, ng.g, i, j, s.player)
                 r == alphaBetaRef(pl.h, pl.g, s.depth - 1, s.alpha, s.beta, i, j, s.player)
                 h2 == SubSeq(r.h, 1, Len(s.h))
                 m == move(r.m.value, i, j)
                 np == max(s.p, m)
             IN  IF s.beta <= np.value THEN [m |-> m, h |-> h2]
                 ELSE maxLoopRef[[s EXCEPT !.h = h2, !.k = k + 1,
                                           !.alpha = np.value, !.p = np]]

\* the loops of the minimizing branch; curr = g.currPlayer moves
minLoopRef[s \in RefLoopStates] ==
    LET k == nextEmpty(s.h, s.g, s.k)
    IN  IF k >= s.g.size * s.g.size THEN [m |-> s.p, h |-> s.h]
        ELSE LET i == k \div s.g.size
                 j == k % s.g.size
                 ng == copyGameRef(s.h, s.g)
                 pl == PlayRef(ng.h, ng.g, i, j, s.g.currPlayer)
                 r == alphaBetaRef(pl.h, pl.g, s.depth - 1, s.alpha, s.beta, i, j, s.player)
                 h2 == SubSeq(r.h, 1, Len(s.h))
                 m == move(r.m.value, i, j)
                 np == min(s.p, m)
             IN  IF np.value <= s.alpha THEN [m |-> m, h |-> h2]
                 ELSE minLoopRef[[s EXCEPT !.h = h2, !.k = k + 1,
                                           !.beta = np.value, !.p = np]]

\* alphaBetaPruningSerial on the struct g (passed by value) and the heap
alphaBetaRef(h, g, depth, alpha, beta, x, y, player) ==
    IF depth = 0 THEN [m |-> move(outcome(Deref(h, g), player), x, y), h |-> h]
    ELSE IF isDone(Deref(h, g)).done
      THEN [m |-> move(outcome(Deref(h, g), player), x, y), h |-> h]
    ELSE IF g.currPlayer = player
      THEN maxLoopRef[[h |-> h, g |-> g, depth |-> depth, alpha |-> alpha,
                       beta |-> beta, player |-> player, k |-> 0,
                       p |-> move(alpha, x, y)]]
    ELSE minLoopRef[[h |-> h, g |-> g, depth |-> depth, alpha |-> alpha,
                     beta |-> beta, player |-> player, k |-> 0,
                     p |-> move(beta, x, y)]]

\* PlayAI on the live game g, whose board is h[1]: the search gets *g, a
\* copy of the struct with the same ref; Play then moves on the live game.
PlayAIRef(g, player) ==
    IF g.currPlayer # player
    THEN PlayAIResult(PlayResult(g, FALSE, Empty, ErrTurn), NoMove)
    ELSE LET live == GameRef(1, g.size, g.count, g.currPlayer)
             s == alphaBetaRef(<<g.board>>, live, g.size * g.size,
                               0 - (g.size * g.size * 10), g.size * g.size * 10,
                               0 - 1, 0 - 1, player)
             pl == PlayRef(s.h, live, s.m.i, s.m.j, player)
         IN  PlayAIResult(PlayResult(Deref(pl.h, pl.g), pl.done, pl.winner, pl.err),
                          searched(s.m, TRUE, FALSE))

HeapSizes == {1, 2, 3}

HeapInit ==
    \E sz \in HeapSizes :
    \E g \in {New(sz)} :
        /\ board = g.board
        /\ size = g.size
        /\ count = g.count
        /\ currPlayer = g.currPlayer
        /\ moves = 0
        /\ auto = Empty
        /\ pc = "returned"
        /\ ret = Ret("New", sz, 0, Empty, NoGame,
                     PlayResult(g, FALSE, Empty, NoError), NoMove)

\* g.Play(x, y, currPlayer) on a cell of the board
HeapPlay ==
    /\ pc = "idle"
    /\ \E x \in 0 .. size - 1 :
       \E y \in 0 .. size - 1 :
       \E r \in {Play(G, x, y, currPlayer)} :
          /\ SetGame(r.g)
          /\ ret' = Ret("Play", x, y, currPlayer, G, r, NoMove)
          /\ moves' = IF r.err = NoError THEN moves + 1 ELSE moves
    /\ pc' = "returned"
    /\ UNCHANGED auto

\* g.PlayAI(player), the search running on the heap
HeapPlayAI ==
    /\ pc = "idle"
    /\ \E player \in {Cross, Nought} :
       \E r \in {PlayAIRef(G, player)} :
          /\ SetGame(r.g)
          /\ ret' = Ret("PlayAI", r.m.i, r.m.j, player, G, r, r.m)
          /\ moves' = IF r.err = NoError THEN moves + 1 ELSE moves
    /\ pc' = "returned"
    /\ UNCHANGED auto

HeapReturn ==
    /\ pc = "returned"
    /\ pc' = "idle"
    /\ ret' = NoRet
    /\ UNCHANGED <<board, size, count, currPlayer, moves, auto>>

HeapNext == HeapPlay \/ HeapPlayAI \/ HeapReturn

SpecHeap == HeapInit /\ [][HeapNext]_vars

\* ------------------------------------------------- vocabulary of the claims
\* (x, y) is a cell of g's board
InBoard(g, x, y) == x \in 0 .. g.size - 1 /\ y \in 0 .. g.size - 1

\* the rows, the columns, the main diagonal and the anti-diagonal of an
\* n x n board, each as the set of its cells
LineSets(n) ==
    {{<<i, j>> : j \in 0 .. n - 1} : i \in 0 .. n - 1}
      \cup {{<<i, j>> : i \in 0 .. n - 1} : j \in 0 .. n - 1}
      \cup {{<<i, i>> : i \in 0 .. n - 1}}
      \cup {{<<i, n - 1 - i>> : i \in 0 .. n - 1}}

\* the symbols that fill a whole line of g
Owners(g) ==
    {w \in {Cross, Nought} :
        \E L \in LineSets(g.size) : \A c \in L : g.board[c[1]][c[2]] = w}

\* the Empty cells of g
EmptySet(g) ==
    {c \in (0 .. g.size - 1) \X (0 .. g.size - 1) : g.board[c[1]][c[2]] = Empty}

\* g is over: a line is complete or no cell is Empty
Terminal(g) == Owners(g) # {} \/ EmptySet(g) = {}

\* a call of op has returned
Returned(op) == pc = "returned" /\ ret.op = op

\* the call was one Play accepts: the caller's turn, an Empty cell of the board
Legal(g, x, y, player) ==
    /\ player = g.currPlayer
    /\ InBoard(g, x, y)
    /\ g.board[x][y] = Empty

\* ------------------------------------------------------------------ claims

\* C1: a call Play(x, y, player) returns no error exactly when player is the
\* current player, (x, y) is inside the board and the cell is Empty; every
\* other call returns (false, Empty, error) and leaves the board and the
\* current player as they were.
C1_PlaySucceedsIffLegal ==
    Returned("Play") =>
        /\ (ret.err = NoError) <=> Legal(ret.pre, ret.x, ret.y, ret.player)
        /\ ~Legal(ret.pre, ret.x, ret.y, ret.player) =>
              /\ ret.done = FALSE
              /\ ret.winner = Empty
              /\ ret.err \in {ErrTurn, ErrPosition, ErrPlayed}
              /\ board = ret.pre.board
              /\ currPlayer = ret.pre.currPlayer

\* C1 witness: a Play by the current player on an occupied cell was refused
C1_Witness ==
    /\ Returned("Play")
    /\ ret.player = ret.pre.currPlayer
    /\ InBoard(ret.pre, ret.x, ret.y)
    /\ ret.pre.board[ret.x][ret.y] # Empty
    /\ ret.err = ErrPlayed

\* C2: the current player is Cross iff the number of successful moves so far
\* is even and Nought iff it is odd; the turn flips on every successful
\* move, also on the one that ends the game, and never on a failed call.
C2_TurnParity ==
    pc # "panicked" =>
        /\ (currPlayer = Cross) <=> (moves % 2 = 0)
        /\ (currPlayer = Nought) <=> (moves % 2 = 1)
        /\ (Returned("Play") \/ Returned("PlayAI")) =>
              IF ret.err = NoError
              THEN currPlayer \in {Cross, Nought} \ {ret.pre.currPlayer}
              ELSE currPlayer = ret.pre.currPlayer

\* C2 witness: an automated move ended the game and the turn went to Nought
C2_Witness ==
    /\ Returned("PlayAI")
    /\ ret.err = NoError
    /\ ret.done
    /\ moves % 2 = 1
    /\ currPlayer = Nought

\* C3: after a successful Play on a board of size n >= 1, done is true iff
\* some line is filled by one symbol or no cell is Empty; winner is the
\* symbol of such a line when there is one and Empty otherwise.
C3_DoneAndWinner ==
    (Returned("Play") /\ ret.err = NoError /\ size >= 1) =>
        /\ ret.done <=> Terminal(G)
        /\ Owners(G) # {} => ret.winner \in Owners(G)
        /\ Owners(G) = {} => ret.winner = Empty

\* C3 witness: a Play filled the last cell of a size-3 board with no line
\* complete (a draw)
C3_Witness ==
    /\ Returned("Play")
    /\ ret.err = NoError
    /\ size = 3
    /\ EmptySet(G) = {}
    /\ Owners(G) = {}
    /\ ret.done
    /\ ret.winner = Empty

\* C4: in a game of size 1..3 that is not over, PlayAI for the current
\* player selects a cell that is inside the board and Empty, and the move is
\* applied without error.
C4_SearchSelectsEmptyCell ==
    (/\ Returned("PlayAI")
     /\ ret.player = ret.pre.currPlayer
     /\ ret.pre.size \in 1 .. 3
     /\ ~Terminal(ret.pre)) =>
        /\ InBoard(ret.pre, ret.m.i, ret.m.j)
        /\ ret.pre.board[ret.m.i][ret.m.j] = Empty
        /\ ret.err = NoError
        /\ board = [ret.pre.board EXCEPT ![ret.m.i][ret.m.j] = ret.player]

\* C4 witness: the search chose a cell other than the first Empty one
C4_Witness ==
    /\ Returned("PlayAI")
    /\ ret.err = NoError
    /\ ~Terminal(ret.pre)
    /\ \E c \in EmptySet(ret.pre) :
          c[1] < ret.m.i \/ (c[1] = ret.m.i /\ c[2] < ret.m.j)

\* C5 as stated: whenever player is the current player (of a game of size
\* >= 1), the board has an Empty cell and PlayAI(player) returns no error.
C5_Original ==
    (/\ Returned("PlayAI")
     /\ ret.player = ret.pre.currPlayer
     /\ ret.pre.size >= 1) =>
        /\ EmptySet(ret.pre) # {}
        /\ ret.err = NoError

\* C5 amended: whenever player is the current player and the game is not
\* over (no line is complete and some cell is Empty), PlayAI(player) returns
\* no error.
C5_NoErrorUnlessOver ==
    (/\ Returned("PlayAI")
     /\ ret.player = ret.pre.currPlayer
     /\ ~Terminal(ret.pre)) =>
        /\ EmptySet(ret.pre) # {}
        /\ ret.err = NoError

\* C5 witness: PlayAI moved for the current player with one Empty cell left
C5_Witness ==
    /\ Returned("PlayAI")
    /\ ret.player = ret.pre.currPlayer
    /\ ~Terminal(ret.pre)
    /\ Cardinality(EmptySet(ret.pre)) = 1
    /\ ret.err = NoError

\* C6: PlayAI(player) with player not the current player returns an error
\* with done = false and winner = Empty, runs no search and leaves the board
\* and the current player unchanged.
C6_WrongTurnAI ==
    (Returned("PlayAI") /\ ret.player # ret.pre.currPlayer) =>
        /\ ret.err = ErrTurn
        /\ ret.done = FALSE
        /\ ret.winner = Empty
        /\ ret.m = NoMove
        /\ board = ret.pre.board
        /\ currPlayer = ret.pre.currPlayer

\* C6 witness: Cross asked for an automated move on Nought's turn
C6_Witness ==
    /\ Returned("PlayAI")
    /\ ret.player = Cross
    /\ ret.pre.currPlayer = Nought
    /\ ret.err = ErrTurn

\* C7: size 3, Cross on (0,0) and (0,1), (0,2) Empty, the game not over and
\* Cross to move: PlayAI(Cross) plays (0,2) and returns done = true,
\* winner = Cross.
C7_CompletesTopRow ==
    (/\ Returned("PlayAI")
     /\ ret.player = Cross
     /\ ret.pre.size = 3
     /\ ret.pre.currPlayer = Cross
     /\ ret.pre.board[0][0] = Cross
     /\ ret.pre.board[0][1] = Cross
     /\ ret.pre.board[0][2] = Empty
     /\ ~Terminal(ret.pre)) =>
        /\ ret.m.i = 0
        /\ ret.m.j = 2
        /\ ret.err = NoError
        /\ board = [ret.pre.board EXCEPT ![0][2] = Cross]
        /\ ret.done
        /\ ret.winner = Cross

\* C7 witness: that call, made when another cell would also have won
C7_Witness ==
    /\ Returned("PlayAI")
    /\ ret.player = Cross
    /\ ret.pre.size = 3
    /\ ret.pre.currPlayer = Cross
    /\ ret.pre.board[0][0] = Cross
    /\ ret.pre.board[0][1] = Cross
    /\ ret.pre.board[0][2] = Empty
    /\ ~Terminal(ret.pre)
    /\ ret.pre.board[1][0] = Cross
    /\ ret.pre.board[2][0] = Empty
    /\ ret.winner = Cross

\* C8 as stated: New(sz) reports a failure for every sz < 1.
C8_NewFailsBelowOne ==
    (ret.op = "New" /\ ret.x < 1) => ret.err # NoError

\* C9: for n >= 1, New(n) yields a board of n * n cells, all Empty, with
\* Cross to move, and the game is not done.
C9_NewGame ==
    (Returned("New") /\ ret.x >= 1) =>
        /\ size = ret.x
        /\ DOMAIN board = 0 .. ret.x - 1
        /\ \A i \in DOMAIN board : DOMAIN board[i] = 0 .. ret.x - 1
        /\ Cardinality(EmptySet(G)) = ret.x * ret.x
        /\ currPlayer = Cross
        /\ ret.err = NoError
        /\ isDone(G).done = FALSE

\* C9 witness: New(3) has returned
C9_Witness == Returned("New") /\ ret.x = 3 /\ size = 3

\* C10: after a line has been completed, with an Empty cell left, a Play by
\* the current player on an Empty cell of the board still succeeds, writes
\* the cell, flips the turn and reports done = true again.
C10_PlayAfterEnd ==
    (/\ Returned("Play")
     /\ Owners(ret.pre) # {}
     /\ Legal(ret.pre, ret.x, ret.y, ret.player)) =>
        /\ ret.err = NoError
        /\ board = [ret.pre.board EXCEPT ![ret.x][ret.y] = ret.player]
        /\ currPlayer \in {Cross, Nought} \ {ret.pre.currPlayer}
        /\ ret.done

\* C10 witness: a Play on a size-3 board one of whose lines was complete
C10_Witness ==
    /\ Returned("Play")
    /\ ret.pre.size = 3
    /\ Owners(ret.pre) # {}
    /\ Legal(ret.pre, ret.x, ret.y, ret.player)
    /\ ret.err = NoError

\* the value of one line (a set of cells) for player p: 0 when both symbols
\* lie on it, else the number of p's cells minus the number of the other's
LineVal(g, L, p) ==
    LET mine == Cardinality({c \in L : g.board[c[1]][c[2]] = p})
        free == Cardinality({c \in L : g.board[c[1]][c[2]] = Empty})
        theirs == Cardinality(L) - mine - free
    IN  IF mine > 0 /\ theirs > 0 THEN 0 ELSE mine - theirs

\* the sum of the values of the size rows, the size columns and the two
\* diagonals
LineTotal(g, p) ==
    LET n == g.size
        upTo[k \in 0 .. n] ==
            IF k = 0 THEN 0
            ELSE upTo[k - 1] + LineVal(g, {<<k - 1, j>> : j \in 0 .. n - 1}, p)
                             + LineVal(g, {<<i, k - 1>> : i \in 0 .. n - 1}, p)
    IN  upTo[n] + LineVal(g, {<<i, i>> : i \in 0 .. n - 1}, p)
                + LineVal(g, {<<i, n - 1 - i>> : i \in 0 .. n - 1}, p)

\* the opponent of a player
Other(p) == IF p = Cross THEN Nought ELSE Cross

\* C11: on every board over {Empty, Cross, Nought} of size 1..3,
\* outcome(Cross) equals -outcome(Nought).
C11_OutcomeAntisymmetric ==
    (pc = "eval" /\ DOMAIN ret.out = {Cross, Nought}) =>
        ret.out[Cross] = 0 - ret.out[Nought]

\* C11 witness: both outcomes were read on a size-3 board that nobody has
\* won and that Cross leads
C11_Witness ==
    /\ pc = "eval"
    /\ size = 3
    /\ DOMAIN ret.out = {Cross, Nought}
    /\ Owners(G) = {}
    /\ ret.out[Cross] > 0
    /\ ret.out[Nought] < 0

\* C15: on a board of size 1..3 where at most one symbol fills a whole line,
\* outcome(p) is 3n^2 iff some line is all p's and -3n^2 iff some line is
\* all the opponent's; otherwise it is the sum of the line values, of
\* absolute value below 3n^2.  isDone reports the winner w (not Empty)
\* exactly when outcome(w) is 3n^2.
C15_OutcomeByLines ==
    (pc = "eval" /\ Cardinality(Owners(G)) <= 1) =>
        /\ \A p \in DOMAIN ret.out :
              /\ (ret.out[p] = 3 * size * size) <=> (p \in Owners(G))
              /\ (ret.out[p] = 0 - 3 * size * size) <=> (Other(p) \in Owners(G))
              /\ Owners(G) = {} =>
                    /\ ret.out[p] = LineTotal(G, p)
                    /\ ret.out[p] < 3 * size * size
                    /\ 0 - ret.out[p] < 3 * size * size
              /\ ret.fin # << >> =>
                    ((ret.fin[1].winner = p) <=> (ret.out[p] = 3 * size * size))
        /\ ret.fin # << >> => (ret.fin[1].winner # Empty => ret.fin[1].done)

\* C15 witness: on a size-3 board with no complete line, a line holding both
\* symbols and a nonzero total, isDone and both outcomes were read
C15_Witness ==
    /\ pc = "eval"
    /\ size = 3
    /\ Owners(G) = {}
    /\ DOMAIN ret.out = {Cross, Nought}
    /\ ret.fin # << >>
    /\ board[0][0] = Cross /\ board[0][1] = Nought
    /\ ret.out[Cross] = LineTotal(G, Cross)
    /\ ret.out[Cross] >= 3

\* C12 as stated: a successful Play(x, y, player) changes only cell (x, y),
\* from Empty to player, and the current player; every other cell, the size
\* and every other field of the game are unchanged.
C12_Original ==
    (Returned("Play") /\ ret.err = NoError) =>
        /\ ret.pre.board[ret.x][ret.y] = Empty
        /\ board = [ret.pre.board EXCEPT ![ret.x][ret.y] = ret.player]
        /\ currPlayer # ret.pre.currPlayer
        /\ size = ret.pre.size
        /\ count = ret.pre.count

\* C12 amended: a successful Play(x, y, player) changes cell (x, y), from
\* Empty to player, the current player and the count of remaining cells,
\* which goes down by one; every other cell and the size are unchanged.
C12_PlayFrame ==
    (Returned("Play") /\ ret.err = NoError) =>
        /\ ret.pre.board[ret.x][ret.y] = Empty
        /\ board = [ret.pre.board EXCEPT ![ret.x][ret.y] = ret.player]
        /\ currPlayer # ret.pre.currPlayer
        /\ size = ret.pre.size
        /\ count = ret.pre.count - 1

\* C12 witness: a successful Play off the diagonal of a size-3 board that
\* already held other moves
C12_Witness ==
    /\ Returned("Play")
    /\ ret.err = NoError
    /\ size = 3
    /\ ret.x # ret.y
    /\ ret.pre.count < 9
    /\ count = ret.pre.count - 1
    /\ board[ret.x][ret.y] = ret.player

\* C16: PlayAI(current player) on a game that is over (a line is complete
\* or the board is full) returns an error and leaves the board and the
\* current player unchanged.
C16_NoAutomatedMoveWhenOver ==
    (/\ Returned("PlayAI")
     /\ ret.player = ret.pre.currPlayer
     /\ Terminal(ret.pre)) =>
        /\ ret.err # NoError
        /\ board = ret.pre.board
        /\ currPlayer = ret.pre.currPlayer

\* C16 witness: PlayAI for the current player was refused on a size-3 board
\* with the anti-diagonal complete and Empty cells left
C16_Witness ==
    /\ Returned("PlayAI")
    /\ ret.player = ret.pre.currPlayer
    /\ ret.pre.size = 3
    /\ \E w \in {Cross, Nought} : \A i \in 0 .. 2 : ret.pre.board[i][2 - i] = w
    /\ EmptySet(ret.pre) # {}
    /\ ret.err = ErrPosition
    /\ board = ret.pre.board

\* C20: from New(n) there are at most n * n successful moves, the n * n-th
\* returns done = true, and after every call the count of remaining cells
\* equals the number of Empty cells (so the search of depth n * n has at
\* most that many plies to play).
C20_AtMostSizeSquaredMoves ==
    pc # "panicked" =>
        /\ moves <= size * size
        /\ count = Cardinality(EmptySet(G))
        /\ moves + count = size * size
        /\ ((Returned("Play") \/ Returned("PlayAI")) /\ ret.err = NoError
               /\ moves = size * size) => ret.done

\* C20 witness: the ninth successful move of a size-3 game, with no line
\* complete before it, returned done
C20_Witness ==
    /\ Returned("Play") \/ Returned("PlayAI")
    /\ ret.err = NoError
    /\ size = 3
    /\ moves = 9
    /\ count = 0
    /\ Owners(ret.pre) = {}
    /\ ret.done

\* C14: in every search started by PlayAI (root window -10 size^2 ..
\* 10 size^2), whenever a node leaves its loops on the cutoff test and
\* returns the last child m, m equals, value and coordinates, the best move
\* p of that node.
C14_CutoffReturnsBest ==
    (Returned("PlayAI") /\ ret.player = ret.pre.currPlayer) => ret.m.agree

\* C14 witness: a search from the empty size-3 board in which cutoffs fired
C14_Witness ==
    /\ Returned("PlayAI")
    /\ ret.pre = New(3)
    /\ ret.m.cut
    /\ ret.m.agree

\* ---- the reference for C13: plain minimax by backward induction
\* f with its values computed once: TLC keeps [x \in S |-> e] as a rule,
\* evaluated anew at every application, until the function is compared
Tabulate(f) == IF f = f THEN f ELSE f

\* Boards are numbered in base 3, cell (i, j) being digit i * n + j.
RECURSIVE Pow3(_)
Pow3(k) == IF k = 0 THEN 1 ELSE 3 * Pow3(k - 1)

Digit(sym) == IF sym = Empty THEN 0 ELSE IF sym = Cross THEN 1 ELSE 2

SymbolOf(d) == IF d = 0 THEN Empty ELSE IF d = 1 THEN Cross ELSE Nought

BoardAt(code, n) ==
    [i \in 0 .. n - 1 |-> [j \in 0 .. n - 1 |-> SymbolOf((code \div Pow3(i * n + j)) % 3)]]

RECURSIVE CodeFrom(_, _, _)
CodeFrom(b, n, k) ==
    IF k = n * n THEN 0
    ELSE Digit(b[k \div n][k % n]) * Pow3(k) + CodeFrom(b, n, k + 1)

BoardCode(b, n) == CodeFrom(b, n, 0)

\* the player to move on a board of size n with e Empty cells: Cross moves
\* first
Mover(n, e) == IF e % 2 = (n * n) % 2 THEN Cross ELSE Nought

\* the largest and the smallest element of a set of integers
SetMax(S) == CHOOSE v \in S : \A w \in S : w <= v

SetMin(S) == CHOOSE v \in S : \A w \in S : v <= w

\* the digits of code that are 0: the Empty cells, cell (i, j) as i * n + j
FreeDigits(code, n) == {k \in 0 .. n * n - 1 : (code \div Pow3(k)) % 3 = 0}

\* The numbers of the boards after 0, 1, ..., m moves played in turn on
\* Empty cells, Cross first, whether or not a line was complete on the way.
RECURSIVE CodesUpTo(_, _)
CodesUpTo(n, m) ==
    IF m = 0 THEN <<{0}>>
    ELSE LET prev == CodesUpTo(n, m - 1)
         IN  Append(prev,
                UNION {{code + Digit(Mover(n, n * n - m + 1)) * Pow3(k) :
                           k \in FreeDigits(code, n)} : code \in prev[m]})

\* The table for player p of the boards with e Empty cells, given as last
\* the table of those with e - 1: the minimax value for p of the board
\* numbered code is outcome(p) when the board is over; otherwise the largest
\* value of a successor when p moves and the smallest when the opponent
\* moves.  Nothing is pruned: every successor is looked up.
MinimaxFor(p, n, e, codes, last) ==
    Tabulate([code \in codes |->
        LET g == Game(BoardAt(code, n), n, e, Mover(n, e))
            vals == {last[code + Digit(Mover(n, e)) * Pow3(k)] : k \in FreeDigits(code, n)}
        IN  IF Terminal(g) THEN outcome(g, p)
            ELSE IF Mover(n, e) = p THEN SetMax(vals)
            ELSE SetMin(vals)])

\* the tables <<T_0, ..., T_e>>, each the pair of Cross's and Nought's; T_0
\* needs no successors
RECURSIVE MinimaxUpTo(_, _, _)
MinimaxUpTo(n, e, layers) ==
    IF e = 0
    THEN <<<<MinimaxFor(Cross, n, 0, layers[n * n + 1], << >>),
             MinimaxFor(Nought, n, 0, layers[n * n + 1], << >>)>>>>
    ELSE LET prev == MinimaxUpTo(n, e - 1, layers)
         IN  Append(prev,
                <<MinimaxFor(Cross, n, e, layers[n * n - e + 1], prev[e][1]),
                  MinimaxFor(Nought, n, e, layers[n * n - e + 1], prev[e][2])>>)

\* all tables of size n
MinimaxTables(n) == MinimaxUpTo(n, n * n, CodesUpTo(n, n * n))

Minimax2 == MinimaxTables(2)

Minimax3 == MinimaxTables(3)

\* the minimax value for p of the board b of the game g
MinimaxValue(g, b, p) ==
    LET e == Cardinality(EmptySet([g EXCEPT !.board = b]))
    IN  IF g.size = 2 THEN Minimax2[e + 1][Digit(p)][BoardCode(b, 2)]
        ELSE Minimax3[e + 1][Digit(p)][BoardCode(b, 3)]

\* the value for p of p's move on cell c of g
MoveValue(g, c, p) == MinimaxValue(g, [g.board EXCEPT ![c[1]][c[2]] = p], p)

\* c comes before d in row-major order
RowMajorBefore(c, d) == c[1] < d[1] \/ (c[1] = d[1] /\ c[2] < d[2])

\* the first Empty cell in row-major order whose value is maximal
MinimaxChoice(g, p) ==
    CHOOSE c \in EmptySet(g) :
        /\ \A d \in EmptySet(g) : MoveValue(g, d, p) <= MoveValue(g, c, p)
        /\ \A d \in EmptySet(g) :
              RowMajorBefore(d, c) => MoveValue(g, d, p) < MoveValue(g, c, p)

\* C13: in every game of size 2 or 3 that is not over, the cell PlayAI
\* chooses for the current player and the score of the root equal those of
\* plain minimax without pruning: the first Empty cell in row-major order
\* whose full-depth minimax value is maximal, and that value.
C13_PruningKeepsMinimaxChoice ==
    (/\ Returned("PlayAI")
     /\ ret.player = ret.pre.currPlayer
     /\ ret.pre.size \in {2, 3}
     /\ ~Terminal(ret.pre)) =>
        /\ ret.m.value = MinimaxValue(ret.pre, ret.pre.board, ret.player)
        /\ <<ret.m.i, ret.m.j>> = MinimaxChoice(ret.pre, ret.player)
        /\ ret.m.value = MoveValue(ret.pre, <<ret.m.i, ret.m.j>>, ret.player)

\* C13 witness: on a size-3 board the search cut branches off and chose a
\* cell that is not the first Empty one, an earlier Empty cell being worse
C13_Witness ==
    /\ Returned("PlayAI")
    /\ ret.player = ret.pre.currPlayer
    /\ ret.pre.size = 3
    /\ ~Terminal(ret.pre)
    /\ ret.m.cut
    /\ \E d \in EmptySet(ret.pre) :
          /\ RowMajorBefore(d, <<ret.m.i, ret.m.j>>)
          /\ MoveValue(ret.pre, d, ret.player) < ret.m.value

\* the Empty cells of g on which p completes a line of p's symbol
WinningCells(g, p) ==
    {c \in EmptySet(g) : p \in Owners([g EXCEPT !.board[c[1]][c[2]] = p])}

\* the case of C18: PlayAI by the player to move, on a size-3 game that is
\* not over and in which that player can complete a line at once
CanWinAtOnce ==
    /\ Returned("PlayAI")
    /\ ret.player = ret.pre.currPlayer
    /\ ret.pre.size = 3
    /\ ~Terminal(ret.pre)
    /\ WinningCells(ret.pre, ret.player) # {}

\* C18 as stated: in that case PlayAI plays a line-completing cell and
\* returns done = true with the player as winner.
C18_Original ==
    CanWinAtOnce =>
        /\ <<ret.m.i, ret.m.j>> \in WinningCells(ret.pre, ret.player)
        /\ ret.done
        /\ ret.winner = ret.player

\* C18 amended: in that case PlayAI succeeds and plays an Empty cell of
\* search value 27 from which the player still wins against every reply;
\* the cell is the first line-completing cell in row-major order or an Empty
\* cell before it; the call returns done = true, with the player as winner,
\* exactly when the cell played completes a line.
C18_KeepsForcedWin ==
    CanWinAtOnce =>
        /\ ret.err = NoError
        /\ <<ret.m.i, ret.m.j>> \in EmptySet(ret.pre)
        /\ ret.m.value = 27
        /\ MoveValue(ret.pre, <<ret.m.i, ret.m.j>>, ret.player) = 27
        /\ \A w \in WinningCells(ret.pre, ret.player) :
              ~RowMajorBefore(w, <<ret.m.i, ret.m.j>>)
        /\ ret.done <=> (<<ret.m.i, ret.m.j>> \in WinningCells(ret.pre, ret.player))
        /\ ret.done => ret.winner = ret.player

\* C18 witness: with a line-completing cell at hand, PlayAI played an earlier
\* cell that completes no line, and the game went on
C18_Witness ==
    /\ CanWinAtOnce
    /\ ret.err = NoError
    /\ <<ret.m.i, ret.m.j>> \notin WinningCells(ret.pre, ret.player)
    /\ ret.m.value = 27
    /\ ~ret.done

\* C19: in a size-3 match in which one player makes all of their moves
\* through PlayAI (as Cross moving first or as Nought moving second) and the
\* opponent plays any legal moves through Play, stopped at the first
\* done = true, the game never ends with the opponent as winner.
C19_AutomatedPlayerNeverLoses ==
    (/\ size = 3
     /\ auto \in {Cross, Nought}
     /\ Returned("Play") \/ Returned("PlayAI")
     /\ ret.done) =>
        ret.winner \in {auto, Empty}

\* C19 witness: a size-3 match with Nought automated that the opponent's
\* ninth move ended in a draw
C19_Witness ==
    /\ size = 3
    /\ auto = Nought
    /\ Returned("Play")
    /\ ret.player = Cross
    /\ ret.done
    /\ ret.winner = Empty
    /\ moves = 9

\* C17: the search writes no cell of the live game, every hypothetical move
\* going to a board that copyGame allocated: after a successful
\* PlayAI(player) the live board differs from the board before the call in
\* exactly one cell, Empty before and player's after, and the turn has
\* flipped once; a PlayAI that fails leaves the board as it was.  The move
\* is the one the search finds on game values that share nothing.
C17_SearchLeavesLiveGame ==
    Returned("PlayAI") =>
        IF ret.err = NoError
        THEN /\ ret.pre.board[ret.m.i][ret.m.j] = Empty
             /\ board = [ret.pre.board EXCEPT ![ret.m.i][ret.m.j] = ret.player]
             /\ Cardinality({c \in (0 .. size - 1) \X (0 .. size - 1) :
                                board[c[1]][c[2]] # ret.pre.board[c[1]][c[2]]}) = 1
             /\ currPlayer = Other(ret.pre.currPlayer)
             /\ size = ret.pre.size
             /\ LET m == searchMove(ret.pre, ret.player)
                 IN  ret.m.value = m.value /\ ret.m.i = m.i /\ ret.m.j = m.j
        ELSE /\ board = ret.pre.board
             /\ currPlayer = ret.pre.currPlayer

\* C17 witness: a successful PlayAI on a size-3 board with two cells played,
\* whose search went through many positions
C17_Witness ==
    /\ Returned("PlayAI")
    /\ ret.err = NoError
    /\ size = 3
    /\ ret.pre.count = 7
    /\ Cardinality(EmptySet(G)) = 6
    /\ currPlayer = Nought

====
